---------------------------- MODULE Spec2Model ----------------------------
(***************************************************************************)
(* GustoPunch (src/gusto.py): a menu-bar application that keeps one        *)
(* automated browser session, guarded by driver_lock, and clocks in/out.   *)
(*                                                                         *)
(* Every callback of the application runs on the single main thread of the *)
(* event loop.  A callback is one action of the model; the body of each    *)
(* method is an operator from an application record (the fields of self)   *)
(* and the answers of the environment (web site, dialogs) to a new         *)
(* application record.  driver_lock is a threading.Lock, which is not      *)
(* re-entrant: a method that enters "with self.driver_lock" while the      *)
(* calling method still holds it blocks the main thread for ever.  That    *)
(* outcome is the field hung.                                              *)
(*                                                                         *)
(* Optional Python values are sequences of length at most one: <<>> is     *)
(* None (or an absent key / file entry), <<v>> is the value v.             *)
(***************************************************************************)
EXTENDS Integers, Sequences, FiniteSets

(* ------------------------------ bounds -------------------------------- *)

MaxHandles == 2      \* browser handles created in one run of the model
MaxPasses == 3       \* detection passes the site can force in one detection
MaxNow == 7400       \* the clock stops advancing beyond this time
TimeStep == 3660     \* seconds that pass in one step of the clock
StartTime == 3661    \* time.time() when the application starts

(* --------------------------- option values ---------------------------- *)

None == <<>>

Some(v) == <<v>>

\* The timestamps of the model are values of time.time(), written as
\* natural numbers.  Two more values can stand in the timer file under
\* "clock_in_time": NonFinite is a float that is not finite (json.load
\* reads NaN, Infinity, -Infinity and 1e999 as such), NoNumber is a JSON
\* value float() does not take (a string that is no number, a list, an
\* object).  Both are written as negative numbers, which no time.time()
\* of the model is.
NonFinite == 0 - 1

NoNumber == 0 - 2

\* Python truthiness of an optional value: None and 0 are false.
Truthy(o) == o # None /\ o[1] # 0

(* ------------------------------- state -------------------------------- *)

VARIABLES
  pc,             \* position of the main thread: "start", "idle",
                  \* "ftl_session", "ftl_finally", "exited"
  in_ctor,        \* the running setup was called from __init__
  config,         \* self.config: [email, password], each optional
  status,         \* self.status
  clock_in_time,  \* self.clock_in_time (optional)
  timer_file,     \* ~/.gusto_punch_timer.json
  driver,         \* self.driver (optional handle)
  session_active, \* self.session_active
  lock,           \* driver_lock is held
  hung,           \* the main thread is blocked acquiring driver_lock
  live,           \* handles created and not yet quit
  next_handle,    \* identity of the next handle webdriver.Chrome returns
  temp_driver,    \* first_time_login's temp_driver (optional handle)
  clock_in_cb,    \* clock_in_item has a callback (the item is enabled)
  clock_out_cb,   \* clock_out_item has a callback
  timer_title,    \* the "Time Clocked" item: <<>> is --:--, else <<h, m>>
  now,            \* time.time()
  op,             \* the callback that ran last; "wait" once the run
                  \* loop waits for the next event
  ret,            \* what init_browser_session returned last in the
                  \* callback (optional)
  dash,           \* the dashboard passes the last detection looked at
  seen,           \* the detection made last, if nothing else has set
                  \* status or timer since (optional): what the dashboard
                  \* showed, whether the detection before it was shown the
                  \* same, and whether it changed status or timer
  log             \* what the last step did, in order

vars == <<pc, in_ctor, config, status, clock_in_time, timer_file, driver,
          session_active, lock, hung, live, next_handle, temp_driver,
          clock_in_cb, clock_out_cb, timer_title, now, op, ret, dash, seen,
          log>>

\* The application as one record, the argument of the method operators.
\* exc is the exception in flight ("none", "timeout", "error"); rv is the
\* value the last method returned.
Cur ==
  [config |-> config, status |-> status, clock_in_time |-> clock_in_time,
   timer_file |-> timer_file, driver |-> driver,
   session_active |-> session_active, lock |-> lock, hung |-> hung,
   live |-> live, next_handle |-> next_handle, temp_driver |-> temp_driver,
   clock_in_cb |-> clock_in_cb, clock_out_cb |-> clock_out_cb,
   timer_title |-> timer_title, now |-> now, ret |-> ret,
   seen |-> seen, exc |-> "none", rv |-> FALSE, dash |-> <<>>,
   log |-> <<>>]

\* The application record becomes the next state.
Commit(s) ==
  /\ config' = s.config
  /\ status' = s.status
  /\ clock_in_time' = s.clock_in_time
  /\ timer_file' = s.timer_file
  /\ driver' = s.driver
  /\ session_active' = s.session_active
  /\ lock' = s.lock
  /\ hung' = s.hung
  /\ live' = s.live
  /\ next_handle' = s.next_handle
  /\ temp_driver' = s.temp_driver
  /\ clock_in_cb' = s.clock_in_cb
  /\ clock_out_cb' = s.clock_out_cb
  /\ timer_title' = s.timer_title
  /\ now' = s.now
  /\ ret' = s.ret
  /\ dash' = s.dash
  /\ seen' = s.seen
  /\ log' = s.log

\* One entry of the log: what was done, on which handle (0: none), and
\* whether driver_lock was held at that moment.
Ev(s, what, h) == [s EXCEPT !.log = Append(@, <<what, h, s.lock>>)]

Raise(s, e) == [s EXCEPT !.exc = e]

Caught(s) == [s EXCEPT !.exc = "none"]

Return(s, v) == [s EXCEPT !.rv = v]

InLog(l, what) == \E i \in 1..Len(l) : l[i][1] = what

InLogOn(l, what, h) ==
  \E i \in 1..Len(l) : l[i][1] = what /\ l[i][2] = h

\* a is logged before b.
Before(l, a, b) ==
  \E i, j \in 1..Len(l) : i < j /\ l[i][1] = a /\ l[j][1] = b

Logged(what) == InLog(log, what)

(* ---------------------------- driver_lock ----------------------------- *)

\* "with self.driver_lock:" on entry.  The lock is not re-entrant and there
\* is one thread, so entering while it is held never returns.
Acquire(s) ==
  IF s.lock
    THEN Ev([s EXCEPT !.hung = TRUE], "blocked", 0)
    ELSE [s EXCEPT !.lock = TRUE]

\* "with self.driver_lock:" on exit, by return or by exception.
Release(s) == IF s.hung THEN s ELSE [s EXCEPT !.lock = FALSE]

(* ------------------------- timer and menu ----------------------------- *)

\* update_timer with line 193 testing the timestamp only.
update_timer_any_status(s) ==
  IF Truthy(s.clock_in_time)
    THEN IF s.clock_in_time[1] = NonFinite
           THEN Raise(s, "error")
           ELSE LET elapsed_seconds == s.now - s.clock_in_time[1]
                    hours == elapsed_seconds \div 3600
                    minutes == (elapsed_seconds % 3600) \div 60
                IN [s EXCEPT !.timer_title = <<hours, minutes>>]
    ELSE [s EXCEPT !.timer_title = <<>>]

\* update_timer, lines 191-201.  With a timestamp that is not finite the
\* elapsed time is not finite either and int() raises at line 195 (a
\* ValueError, or an OverflowError): the title stays as it was.
update_timer(s) ==
  IF s.status = "in" /\ Truthy(s.clock_in_time)
    THEN IF s.clock_in_time[1] = NonFinite
           THEN Raise(s, "error")
           ELSE LET elapsed_seconds == s.now - s.clock_in_time[1]
                    hours == elapsed_seconds \div 3600
                    minutes == (elapsed_seconds % 3600) \div 60
                IN [s EXCEPT !.timer_title = <<hours, minutes>>]
    ELSE [s EXCEPT !.timer_title = <<>>]

\* save_timer_state, lines 182-189: open(..., "w") and json.dump inside
\* try/except.  When the path cannot be written the error is logged and
\* the file stays as it was.
save_timer_state(s) ==
  IF s.timer_file.writable
    THEN [s EXCEPT !.timer_file =
            [exists |-> TRUE, valid |-> TRUE,
             clock_in_time |-> s.clock_in_time, writable |-> TRUE]]
    ELSE s

update_menu_state(s) ==
  Ev(IF s.status = "out"
       THEN [s EXCEPT !.clock_in_cb = TRUE, !.clock_out_cb = FALSE]
       ELSE IF s.status = "in"
         THEN [s EXCEPT !.clock_in_cb = FALSE, !.clock_out_cb = TRUE]
         ELSE [s EXCEPT !.clock_in_cb = TRUE, !.clock_out_cb = TRUE],
     "menu", 0)

\* update_timer and then update_menu_state, as at lines 731-732, 748-749,
\* 761-762 and 841-844: when update_timer raises, the menu is not reached.
Redisplayed(s) ==
  LET Updated(k) == IF k.exc # "none" THEN k ELSE update_menu_state(k)
  IN Updated(update_timer(s))

\* A wait on the site or on the user (WebDriverWait.until, driver.get, a
\* dialog) takes time: time.time() is dt later when the method goes on.
Wait(s, dt) == [s EXCEPT !.now = @ + dt]

\* The time one wait of a callback can take.
Lags == {0, TimeStep}

\* The callback has come to the state s and has one more wait before it
\* returns or blocks (an alert or a dialog that is open, a wait on the
\* site that times out, driver.quit): the states it can end in.
Later(s) == {Wait(s, dt) : dt \in Lags}

is_configured(s) == s.config.email # None /\ s.config.password # None

(* --------------------------- the web site ----------------------------- *)

\* What the site answers to the wait for the "Remember this device" button.
RemAnswers == {"none", "found", "error"}

\* One look at the dashboard by the status detector: up is FALSE when a
\* wait raises something other than a timeout; cin and cout are the
\* presence of the "Clock in" and "Clock out" elements; lag is the time
\* the waits of lines 721 and 736 take.
Passes ==
  [up : BOOLEAN, cin : BOOLEAN, cout : BOOLEAN, rem : RemAnswers,
   lag : Lags]

handle_remember_device_page(s, r, h) ==
  IF r = "found"
    THEN Return(Ev(s, "remember_click", h), TRUE)
    ELSE Return(s, FALSE)

\* DetectedOut without the save_timer_state of line 730.
DetectedOut_NoSave(s, h) ==
  Redisplayed(
    Ev([s EXCEPT !.status = "out", !.clock_in_time = None],
       "detect_out", h))

\* Lines 726-732: the "Clock in" element is present.
DetectedOut(s, h) ==
  Redisplayed(save_timer_state(
    Ev([s EXCEPT !.status = "out", !.clock_in_time = None],
       "detect_out", h)))

\* DetectedIn without the test of line 745: the timer always restarts.
DetectedIn_Restarts(s, h) ==
  Redisplayed(save_timer_state(
    Ev([s EXCEPT !.status = "in", !.clock_in_time = Some(s.now)],
       "detect_in", h)))

\* DetectedIn with the test of line 745 inverted: a set timestamp is
\* started again.
DetectedIn_TestInverted(s, h) ==
  Redisplayed(
    IF Truthy(s.clock_in_time)
      THEN save_timer_state(
             Ev([s EXCEPT !.status = "in", !.clock_in_time = Some(s.now)],
                "detect_in", h))
      ELSE Ev([s EXCEPT !.status = "in"], "detect_in", h))

\* Lines 741-749: the "Clock out" element is present.
DetectedIn(s, h) ==
  Redisplayed(
    IF ~Truthy(s.clock_in_time)
      THEN save_timer_state(
             Ev([s EXCEPT !.status = "in", !.clock_in_time = Some(s.now)],
                "detect_in", h))
      ELSE Ev([s EXCEPT !.status = "in"], "detect_in", h))

\* Lines 757-762: neither element, and no remember-device page.
DetectedUnknown(s, h) ==
  Redisplayed(save_timer_state(
    Ev([s EXCEPT !.status = "unknown", !.clock_in_time = None],
       "detect_unknown", h)))

\* A detection entered in the state x has ended on the pass p and left
\* the state k.
Remembered(x, k, p) ==
  [k EXCEPT !.seen =
     Some([cin |-> p.cin, cout |-> p.cout,
           again |-> /\ x.seen # None
                     /\ x.seen[1].cin = p.cin
                     /\ x.seen[1].cout = p.cout,
           changed |-> <<x.status, x.clock_in_time, x.timer_file>>
                         # <<k.status, k.clock_in_time, k.timer_file>>])]

\* Status or timer is changed by something other than a detection, or a
\* detection raises: the detections before it are no longer in a row.
Forgotten(s) == [s EXCEPT !.seen = None]

\* A detection entered in the state x has ended on the pass p with k, or
\* has left by the exception update_timer raised.
Ended(x, k, p) == IF k.exc # "none" THEN Forgotten(k) ELSE Remembered(x, k, p)

RECURSIVE check_status_from_driver(_, _, _)
check_status_from_driver(s, h, passes) ==
  LET \* lines 753-762
      Neither(r, p) ==
        IF r.rv
          THEN check_status_from_driver(r, h, Tail(passes))
          ELSE Ended(r, DetectedUnknown(r, h), p)
      Looked(x, p) ==
        IF ~p.up THEN Forgotten(Raise(x, "error"))
        ELSE IF p.cin THEN Ended(x, DetectedOut(x, h), p)
        ELSE IF p.cout THEN Ended(x, DetectedIn(x, h), p)
        ELSE Neither(handle_remember_device_page(x, p.rem, h), p)
  IN IF passes = <<>>
       THEN Forgotten(Raise(s, "error"))
       ELSE Looked(Wait([s EXCEPT !.dash = Append(@, Head(passes))],
                        Head(passes).lag),
                   Head(passes))

(* ------------------------- browser session ---------------------------- *)

\* The ways get_chrome_driver can go: webdriver.Chrome starts a browser
\* and the two calls on it succeed; no browser is started (makedirs or
\* both calls of webdriver.Chrome raise); the browser is started and
\* execute_script (479) or set_page_load_timeout (484) raises.
CreateAnswers == {"ok", "no_browser", "script_raises"}

\* get_chrome_driver, lines 434-486.  Lines 479-484 are outside any try:
\* when they raise, the browser that was started keeps running and the
\* caller gets the exception instead of the handle.
get_chrome_driver(s, create) ==
  IF create = "no_browser"
    THEN Raise(s, "error")
  ELSE IF create = "script_raises"
    THEN Raise(Ev([s EXCEPT !.live = @ \cup {s.next_handle},
                            !.next_handle = @ + 1],
                  "create", s.next_handle), "error")
  ELSE Ev([s EXCEPT !.live = @ \cup {s.next_handle},
                    !.next_handle = @ + 1], "create", s.next_handle)

\* driver.quit() inside try/except: the handle is given up whether or not
\* quit raises.
Quit(s, h, ok) ==
  Ev([s EXCEPT !.live = @ \ {h}], IF ok THEN "quit" ELSE "quit_raised", h)

\* close_browser_session without the try/except of lines 131-134: a quit
\* that raises leaves the method with handle and flag as they were.
close_browser_session_quit_unguarded(s, quit_ok) ==
  LET Locked(a) ==
        IF a.hung THEN a
        ELSE IF a.driver # None /\ ~quit_ok
          THEN Release(Raise(Ev(a, "quit_raised", a.driver[1]), "error"))
        ELSE IF a.driver # None
          THEN Release(Ev([Quit(a, a.driver[1], quit_ok)
                             EXCEPT !.driver = None,
                                    !.session_active = FALSE],
                          "closed", 0))
          ELSE Release(a)
  IN Locked(Acquire(s))

\* close_browser_session without "with self.driver_lock" (line 129).
close_browser_session_unlocked(s, quit_ok) ==
  IF s.driver # None
    THEN Ev([Quit(s, s.driver[1], quit_ok)
               EXCEPT !.driver = None, !.session_active = FALSE],
            "closed", 0)
    ELSE s

\* close_browser_session without line 136: the handle is dropped and the
\* session stays marked active.
close_browser_session_stays_active(s, quit_ok) ==
  LET Locked(a) ==
        IF a.hung THEN a
        ELSE IF a.driver # None
          THEN Release(Ev([Quit(a, a.driver[1], quit_ok)
                             EXCEPT !.driver = None],
                          "closed", 0))
          ELSE Release(a)
  IN Locked(Acquire(s))

\* close_browser_session without line 135: the handle is quit and kept.
close_browser_session_keeps_handle(s, quit_ok) ==
  LET Locked(a) ==
        IF a.hung THEN a
        ELSE IF a.driver # None
          THEN Release(Ev([Quit(a, a.driver[1], quit_ok)
                             EXCEPT !.session_active = FALSE],
                          "closed", 0))
          ELSE Release(a)
  IN Locked(Acquire(s))

close_browser_session(s, quit_ok) ==
  LET Locked(a) ==
        IF a.hung THEN a
        ELSE IF a.driver # None
          THEN Release(Ev([Quit(a, a.driver[1], quit_ok)
                             EXCEPT !.driver = None,
                                    !.session_active = FALSE],
                          "closed", 0))
          ELSE Release(a)
  IN Locked(Acquire(s))

(* ----------------------------- login flow ----------------------------- *)

\* What the site and the user answer during one run of handle_login:
\*   probe   wait for a clock action element before logging in:
\*           "found", "absent" (timeout) or "raise" (another exception)
\*   ready   the page becomes interactive within the wait
\*   email   the email input is present;  cont  its submit is clickable
\*   pwd     the password input is present
\*   cb      "remember" checkbox on the password page:
\*           "absent", "unchecked" or "checked"
\*   submit  the submit button after the password is clickable
\*   code    the 2FA code input is present
\*   dlg     the user's answer to the code dialog: "cancel", "empty", "code"
\*   cb2     the checkbox on the 2FA page;  sub2  find_element finds submit
\*   rem1    remember-device page after the 2FA form,  rem2  before the
\*           final wait
\*   final   a clock action element is present within the final wait
LoginAnswers ==
  [probe : {"found", "absent", "raise"}, ready : BOOLEAN,
   email : BOOLEAN, cont : BOOLEAN, pwd : BOOLEAN,
   cb : {"absent", "unchecked", "checked"}, submit : BOOLEAN,
   code : BOOLEAN, dlg : {"cancel", "empty", "code"},
   cb2 : {"absent", "unchecked", "checked"}, sub2 : BOOLEAN,
   rem1 : RemAnswers, rem2 : RemAnswers, final : BOOLEAN]

\* The "remember" checkbox is clicked when present and not selected.
CheckRemember(s, cb, h) ==
  IF cb = "unchecked" THEN Ev(s, "check_remember", h) ELSE s

\* except Exception of handle_login: alert, return False.
LoginError(s, h) == Return(Ev(Caught(s), "alert_login_error", h), FALSE)

\* LoginFinal with "return True" at line 651: a final wait that times out
\* is reported as a login.
LoginFinal_TimeoutIsLogin(s, l, h) ==
  Return(Ev(handle_remember_device_page(Ev(s, "remember_page", h),
                                        l.rem2, h),
            IF l.final THEN "marker_seen" ELSE "marker_timeout", h), TRUE)

\* Lines 633-651: remember-device page, then the final wait.
LoginFinal(s, l, h) ==
  IF l.final
    THEN Return(Ev(handle_remember_device_page(Ev(s, "remember_page", h),
                                               l.rem2, h),
                   "marker_seen", h), TRUE)
    ELSE Return(Ev(handle_remember_device_page(Ev(s, "remember_page", h),
                                               l.rem2, h),
                   "marker_timeout", h), FALSE)

\* LoginTwoFactor without the tests of lines 599 and 601: whatever the
\* dialog returns is typed and submitted.
LoginTwoFactor_AnyAnswer(s, l, h) ==
  IF ~l.code
    THEN LoginFinal(s, l, h)
    ELSE LoginFinal(
           handle_remember_device_page(
             Ev(Ev(CheckRemember(
                     Ev(Ev(Ev(s, "dialog_2fa", h),
                           IF l.dlg = "cancel" THEN "dialog_cancelled"
                           ELSE IF l.dlg = "empty" THEN "dialog_empty"
                           ELSE "dialog_code", h),
                        "type_code", h),
                     l.cb2, h),
                   "submit_code", h),
                "remember_page", h),
             l.rem1, h),
           l, h)

\* Lines 584-631: the 2FA step.
LoginTwoFactor(s, l, h) ==
  IF ~l.code
    THEN LoginFinal(s, l, h)
  ELSE IF l.dlg = "cancel"
    THEN Return(Ev(Ev(s, "dialog_2fa", h), "dialog_cancelled", h), FALSE)
  ELSE IF l.dlg = "empty"
    THEN Return(Ev(Ev(s, "dialog_2fa", h), "dialog_empty", h), FALSE)
  ELSE IF ~l.sub2
    THEN LoginError(CheckRemember(Ev(Ev(s, "dialog_2fa", h),
                                     "type_code", h), l.cb2, h), h)
  ELSE LoginFinal(
         handle_remember_device_page(
           Ev(Ev(CheckRemember(Ev(Ev(s, "dialog_2fa", h), "type_code", h),
                               l.cb2, h),
                 "submit_code", h),
              "remember_page", h),
           l.rem1, h),
         l, h)

\* Lines 547-582 and 653-654: the password step.
LoginPassword(s, l, h) ==
  IF ~l.pwd
    THEN Return(Ev(s, "password_timeout", h), FALSE)
  ELSE IF s.config.password = None
    THEN LoginError(s, h)
  ELSE IF ~l.submit
    THEN Return(Ev(CheckRemember(Ev(s, "type_password", h), l.cb, h),
                   "submit_timeout", h), FALSE)
  ELSE LoginTwoFactor(
         Ev(CheckRemember(Ev(s, "type_password", h), l.cb, h),
            "submit_password", h),
         l, h)

\* Lines 520-545: the email step.
LoginEmail(s, l, h) ==
  IF l.email /\ s.config.email = None
    THEN LoginError(s, h)
    ELSE LoginPassword(
           IF ~l.email THEN Ev(s, "email_absent", h)
           ELSE IF l.cont THEN Ev(Ev(s, "type_email", h), "submit_email", h)
           ELSE Ev(s, "type_email", h),
           l, h)

handle_login(s, l, h) ==
  IF l.probe = "found"
    THEN Return(Ev(Ev(s, "login_probe", h), "already_logged_in", h), TRUE)
  ELSE IF l.probe = "raise" \/ ~l.ready
    THEN LoginError(Ev(s, "login_probe", h), h)
  ELSE LoginEmail(Ev(s, "login_probe", h), l, h)

(* ------------------- session operations (continued) ------------------- *)

\* The answers of the environment during one callback:
\*   probe_ok   reading driver.current_url of the existing handle succeeds
\*   quit_ok    driver.quit() returns without raising
\*   create     how get_chrome_driver goes (CreateAnswers)
\*   nav_ok     driver.get(login URL) succeeds
\*   login      the answers to handle_login
\*   passes     the dashboard during the detection that follows the login
\*   dash_ok    driver.get(dashboard) and the wait for it succeed
\*   looks      the dashboard during the detection of check_status
\*   rem        the remember-device page before the clock button
\*   button     wait for the clock button: "clickable", "timeout", "raise"
\*   confirm    wait for the button to go away: "gone", "timeout", "raise"

\* init_browser_session returns v.
InitReturn(s, v) ==
  Release(Ev([Return(s, v) EXCEPT !.ret = Some(v)], "init_returned", 0))

init_browser_session(s, e) ==
  LET \* lines 117-125: close_browser_session(), return False
      Closed(c) == IF c.hung THEN c ELSE InitReturn(c, FALSE)
      Fail(x) ==
        Closed(close_browser_session(Ev(Caught(x), "init_failed", 0),
                                     e.quit_ok))
      \* lines 112-116
      Detected(k) ==
        IF k.exc # "none" THEN Fail(k) ELSE InitReturn(k, TRUE)
      LoggedIn(g, h) ==
        IF ~g.rv
          THEN Fail(Ev(g, "login_failed", h))
          ELSE Detected(check_status_from_driver(
                          Ev([g EXCEPT !.dash = <<>>], "login_ok", h),
                          h, e.passes))
      \* lines 106-110
      Created(c, h) ==
        IF c.exc # "none" THEN Fail(c)
        ELSE IF ~e.nav_ok
          THEN Fail(Raise(Ev([c EXCEPT !.driver = Some(h),
                                       !.session_active = TRUE],
                             "get_login_raised", h), "error"))
        ELSE LoggedIn(handle_login(
                        Ev([c EXCEPT !.driver = Some(h),
                                     !.session_active = TRUE],
                           "get_login", h),
                        e.login, h), h)
      Fresh(x) == Created(get_chrome_driver(x, e.create), x.next_handle)
      \* lines 88-103
      Locked(a) ==
        IF a.hung THEN a
        ELSE IF a.driver # None /\ e.probe_ok
          THEN InitReturn(Ev([a EXCEPT !.session_active = TRUE],
                             "probe", a.driver[1]), TRUE)
        ELSE Fresh(IF a.driver # None
                     THEN [Quit(Ev(a, "probe", a.driver[1]),
                                a.driver[1], e.quit_ok)
                             EXCEPT !.driver = None]
                     ELSE a)
  IN Locked(Acquire(Ev(s, "init_called",
                       IF s.driver = None THEN 0 ELSE s.driver[1])))

restart_browser_session(s, e) ==
  LET Started(i) ==
        IF i.hung THEN i
        ELSE IF i.rv THEN Ev(i, "notify_restarted", 0)
        ELSE Ev(i, "notify_restart_failed", 0)
      Closed(c) ==
        IF c.hung THEN c ELSE Started(init_browser_session(c, e))
  IN Closed(close_browser_session(s, e.quit_ok))

\* The callers of init_browser_session inside "with self.driver_lock":
\* hung stays, a failure releases the lock and returns.
check_status(s, e) ==
  LET \* lines 709-715
      Restarted(i) == IF i.hung THEN i ELSE Release(i)
      Closed(c) ==
        IF c.hung THEN c ELSE Restarted(init_browser_session(c, e))
      Except(x) ==
        Closed(close_browser_session(
                 Ev(Caught([Forgotten(x) EXCEPT !.status = "unknown"]),
                    "status_error", 0), e.quit_ok))
      \* lines 706-707
      Looked(k) == IF k.exc # "none" THEN Except(k) ELSE Release(k)
      Look(x) ==
        Looked(IF x.driver = None
                 THEN Raise(x, "error")
                 ELSE check_status_from_driver([x EXCEPT !.dash = <<>>],
                                               x.driver[1], e.looks))
      \* lines 692-704
      Landed(i) ==
        IF i.hung THEN i
        ELSE IF ~i.rv THEN Release(i)
        ELSE Look(i)
      Dashboard(x) ==
        Landed(IF x.driver # None /\ e.dash_ok
                 THEN Return(Ev(x, "get_dashboard", x.driver[1]), TRUE)
                 ELSE init_browser_session(x, e))
      \* lines 688-690
      Ensured(i) ==
        IF i.hung THEN i
        ELSE IF ~i.rv THEN Release(i)
        ELSE Dashboard(i)
      Locked(a) ==
        IF a.hung THEN a
        ELSE IF ~is_configured(a) THEN Release(a)
        ELSE Ensured(IF ~a.session_active
                       THEN init_browser_session(a, e)
                       ELSE Return(a, TRUE))
  IN Locked(Acquire(s))

check_status_clicked(s, e) ==
  LET Checked(c) == IF c.hung THEN c ELSE Ev(c, "notify_status", 0)
      Ensured(i) ==
        IF i.hung THEN i
        ELSE IF ~i.rv THEN Ev(i, "notify_init_failed", 0)
        ELSE Checked(check_status(i, e))
  IN Ensured(IF ~s.session_active
               THEN init_browser_session(s, e)
               ELSE Return(s, TRUE))

(* --------------------------- clock action ----------------------------- *)

\* ClockSucceeded without the save_timer_state of line 840.
ClockSucceeded_NoSave(s, action_type) ==
  LET Shown(k) == IF k.exc # "none" THEN k ELSE Ev(k, "notify_success", 0)
  IN Shown(Redisplayed(
       [Forgotten(s) EXCEPT !.status = action_type,
                 !.clock_in_time =
                    IF action_type = "in" THEN Some(s.now) ELSE None]))

\* Lines 833-851 of clock_action: the click was confirmed.
ClockSucceeded(s, action_type) ==
  LET Shown(k) == IF k.exc # "none" THEN k ELSE Ev(k, "notify_success", 0)
  IN Shown(Redisplayed(save_timer_state(
       [Forgotten(s) EXCEPT !.status = action_type,
                 !.clock_in_time =
                    IF action_type = "in" THEN Some(s.now) ELSE None])))

clock_action(s, action_type, e) ==
  LET \* lines 867-872
      Restarted(i) == IF i.hung THEN i ELSE Release(i)
      Closed(c) ==
        IF c.hung THEN c ELSE Restarted(init_browser_session(c, e))
      Except(x) ==
        Closed(close_browser_session(
                 Ev(Caught(x), "alert_clock_error", 0), e.quit_ok))
      \* lines 852-865
      Timeout(x) ==
        IF action_type = "in" /\ x.status = "in"
          THEN Release(Ev(x, "notify_already_in", 0))
        ELSE IF action_type = "out" /\ x.status = "out"
          THEN Release(Ev(x, "notify_already_out", 0))
        ELSE Restarted(restart_browser_session(
                         Ev(Caught(x), "alert_no_button", 0), e))
      \* lines 815-851: the outcome of the two waits, which take e.lag
      Succeeded(k) == IF k.exc # "none" THEN Except(k) ELSE Release(k)
      Waited(k) ==
        IF k.exc = "error" THEN Except(k)
        ELSE IF k.exc = "timeout" THEN Timeout(Caught(k))
        ELSE Succeeded(ClockSucceeded(k, action_type))
      Clicked(x, h) ==
        Waited(IF e.button = "raise"
                 THEN Raise(Ev(x, "button_raised", h), "error")
               ELSE IF e.button = "timeout"
                 THEN Raise(Ev(x, "button_timeout", h), "timeout")
               ELSE IF e.confirm = "raise"
                 THEN Raise(Ev(Ev(x, "click", h), "confirm_raised", h),
                            "error")
               ELSE IF e.confirm = "timeout"
                 THEN Raise(Ev(Ev(x, "click", h), "confirm_timeout", h),
                            "timeout")
               ELSE Ev(Ev(x, "click", h), "confirmed", h))
      Button(x, h) == Clicked(Wait(x, e.lag), h)
      \* lines 812-813
      Landed(i) ==
        IF i.hung THEN i
        ELSE IF ~i.rv THEN Release(Ev(i, "notify_navigate_failed", 0))
        ELSE IF i.driver = None THEN Except(Raise(i, "error"))
        ELSE Button(handle_remember_device_page(i, e.rem, i.driver[1]),
                    i.driver[1])
      \* lines 797-810
      Dashboard(x) ==
        Landed(IF x.driver # None /\ e.dash_ok
                 THEN Return(Ev(x, "get_dashboard", x.driver[1]), TRUE)
                 ELSE init_browser_session(x, e))
      \* lines 787-795
      Ensured(i) ==
        IF i.hung THEN i
        ELSE IF ~i.rv THEN Release(Ev(i, "notify_init_failed", 0))
        ELSE Dashboard(i)
      Locked(a) ==
        IF a.hung THEN a
        ELSE IF ~is_configured(a)
          THEN Release(Ev(a, "alert_setup_first", 0))
        ELSE Ensured(IF ~a.session_active
                       THEN init_browser_session(
                              Ev(a, "notify_clocking", 0), e)
                       ELSE Return(Ev(a, "notify_clocking", 0), TRUE))
  IN Locked(Acquire(s))

clock_in(s, e) ==
  IF s.clock_in_cb THEN clock_action(s, "in", e) ELSE s

clock_out(s, e) ==
  IF s.clock_out_cb THEN clock_action(s, "out", e) ELSE s

(* ------------------------------- setup -------------------------------- *)

\* The texts a user can type into a dialog, and str.strip() on them.
Texts == {"", " ", " b "}

Strip(text) ==
  IF text = " " THEN "" ELSE IF text = " b " THEN "b" ELSE text

\* The answers to the two setup dialogs: ok is the button clicked.
Dialogs == [ok1 : BOOLEAN, text1 : Texts, ok2 : BOOLEAN, text2 : Texts]

\* What the site and the user answer during first_time_login, lines
\* 270-398; the fields are those of the login flow, with final1 the wait
\* after the 2FA form and final2 the wait when no 2FA form was seen.
\* The result has rv FALSE when the method returns at line 372, exc set
\* when an exception reaches line 404, and rv TRUE when line 400 is next.
first_time_login_flow(s, f) ==
  LET h == s.next_handle
      \* lines 363-368 and 389-394
      Detected(k) ==
        IF k.exc # "none" THEN k
        ELSE Return(Ev(k, "alert_setup_complete", 0), TRUE)
      Complete(x) ==
        Detected(check_status_from_driver([x EXCEPT !.dash = <<>>],
                                          h, f.passes))
      \* lines 373-398
      NoTwoFactor(x) ==
        IF f.final2
          THEN Complete(Ev(handle_remember_device_page(
                             Ev(x, "remember_page", h), f.rem2, h),
                           "marker_seen", h))
          ELSE Return(Ev(handle_remember_device_page(
                           Ev(x, "remember_page", h), f.rem2, h),
                         "alert_unverified", 0), TRUE)
      \* lines 345-361
      Submitted(r) ==
        IF f.final1
          THEN Complete(Ev(r, "marker_seen", h))
          ELSE NoTwoFactor(r)
      \* lines 320-372
      TwoFactor(d) ==
        IF f.dlg = "cancel"
          THEN Return(Ev(d, "dialog_cancelled", h), FALSE)
        ELSE IF f.dlg = "empty"
          THEN Return(Ev(d, "alert_code_required", 0), TRUE)
        ELSE IF ~f.sub2
          THEN Raise(CheckRemember(Ev(d, "type_code", h), f.cb2, h),
                     "error")
        ELSE Submitted(handle_remember_device_page(
                         Ev(Ev(CheckRemember(Ev(d, "type_code", h),
                                             f.cb2, h),
                               "submit_code", h),
                            "remember_page", h),
                         f.rem1, h))
      \* lines 308-318
      Password(y) ==
        IF ~f.submit THEN Raise(y, "timeout")
        ELSE IF f.code
          THEN TwoFactor(Ev(Ev(y, "submit_password", h), "dialog_2fa", h))
        ELSE NoTwoFactor(Ev(y, "submit_password", h))
      \* lines 275-306
      Form(x) ==
        IF ~f.nav_ok THEN Raise(x, "error")
        ELSE IF ~f.email THEN Raise(Ev(x, "get_login", h), "timeout")
        ELSE IF ~f.cont
          THEN Raise(Ev(Ev(x, "get_login", h), "type_email", h), "timeout")
        ELSE IF ~f.pwd
          THEN Raise(Ev(Ev(Ev(x, "get_login", h), "type_email", h),
                        "submit_email", h), "timeout")
        ELSE Password(CheckRemember(
                        Ev(Ev(Ev(Ev(x, "get_login", h), "type_email", h),
                              "submit_email", h), "type_password", h),
                        f.cb, h))
      Created(c) ==
        IF c.exc # "none" THEN c
        ELSE Form([c EXCEPT !.temp_driver = Some(h)])
  IN Created(get_chrome_driver(s, f.create))

\* Lines 400-402 of first_time_login.
first_time_login_session(s, e) ==
  LET Closed(c) == IF c.hung THEN c ELSE init_browser_session(c, e)
  IN Closed(close_browser_session(s, e.quit_ok))

\* Lines 404-406 of first_time_login.
first_time_login_except(s) == Ev(Caught(s), "alert_setup_error", 0)

\* Lines 407-413 of first_time_login.
first_time_login_finally(s, quit_ok) ==
  IF s.temp_driver # None
    THEN [Quit(s, s.temp_driver[1], quit_ok) EXCEPT !.temp_driver = None]
    ELSE s

\* save_config, lines 215-222: write_ok is whether open(..., "w") and
\* json.dump succeed; when they do not, the error is shown in an alert and
\* self.config stays as set.
save_config(s, write_ok) ==
  IF write_ok
    THEN Ev(s, "save_config", 0)
    ELSE Ev(Ev(s, "save_config", 0), "alert_save_config", 0)

\* Lines 256-257 of setup: the credentials typed go into self.config.
Configured(s, email, password) ==
  [s EXCEPT !.config = [email |-> Some(email), password |-> Some(password)]]

\* The two dialogs of setup, lines 230-250: what the user answered.
SetupDialogs(s, d) ==
  LET Email(x) ==
        Ev(x, IF Strip(d.text1) = "" THEN "email_blank" ELSE "email_typed",
           0)
      Password(x) ==
        Ev(x, IF Strip(d.text2) = "" THEN "password_blank"
              ELSE "password_typed", 0)
  IN IF ~d.ok1 \/ ~d.ok2 THEN Ev(s, "setup_cancelled", 0)
     ELSE Password(Email(s))

\* setup without the test of line 255: whatever was typed is saved.
setup_saves_blank(s, d, write_ok, quit_ok) ==
  LET Closed(c) == IF c.hung THEN c ELSE Return(c, TRUE)
  IN IF ~d.ok1 \/ ~d.ok2 THEN Return(SetupDialogs(s, d), FALSE)
     ELSE Closed(close_browser_session(
                   save_config(Configured(SetupDialogs(s, d),
                                          Strip(d.text1), Strip(d.text2)),
                               write_ok), quit_ok))

\* setup, lines 228-266, up to the call of first_time_login at line 264;
\* rv is whether that call is made.
setup(s, d, write_ok, quit_ok) ==
  LET Closed(c) == IF c.hung THEN c ELSE Return(c, TRUE)
  IN IF ~d.ok1 \/ ~d.ok2 THEN Return(SetupDialogs(s, d), FALSE)
     ELSE IF Strip(d.text1) # "" /\ Strip(d.text2) # ""
       THEN Closed(close_browser_session(
                     save_config(Configured(SetupDialogs(s, d),
                                            Strip(d.text1), Strip(d.text2)),
                                 write_ok), quit_ok))
       ELSE Return(Ev(SetupDialogs(s, d), "alert_credentials_required", 0),
                   FALSE)

quit_app(s, quit_ok) ==
  LET Closed(c) ==
        IF c.hung THEN c
        ELSE close_browser_session(Ev(c, "quit_application", 0), quit_ok)
  IN Closed(close_browser_session(s, quit_ok))

\* load_timer_state reading a key the file does not have: nothing is loaded.
load_timer_state_wrong_key(s) == s

\* load_timer_state, lines 169-180: a value in the file that is truthy and
\* that float() takes (177) becomes the timestamp and the timer item is
\* refreshed (178); what is raised on the way is caught (179).  Without a
\* file, with a file that cannot be read or parsed, with a null or zero
\* timestamp or with a value float() does not take, nothing changes.
load_timer_state(s) ==
  IF /\ s.timer_file.exists
     /\ s.timer_file.valid
     /\ Truthy(s.timer_file.clock_in_time)
     /\ s.timer_file.clock_in_time[1] # NoNumber
    THEN Caught(update_timer(
                  [s EXCEPT !.clock_in_time = s.timer_file.clock_in_time]))
    ELSE s

\* __init__, lines 30-59: the attributes before load_timer_state is called,
\* with the configuration cfg loaded and the timer file as found.
Constructed(cfg, file) ==
  [config |-> cfg, status |-> "unknown", clock_in_time |-> None,
   timer_file |-> file, driver |-> None, session_active |-> FALSE,
   lock |-> FALSE, hung |-> FALSE, live |-> {}, next_handle |-> 1,
   temp_driver |-> None, clock_in_cb |-> TRUE, clock_out_cb |-> TRUE,
   timer_title |-> <<>>, now |-> StartTime, ret |-> None, seen |-> None,
   exc |-> "none", rv |-> FALSE, dash |-> <<>>, log |-> <<>>]

(* ------------------------ environment answers ------------------------- *)

\* A login in which every element is found and no 2FA is asked.
PlainLogin ==
  [probe |-> "absent", ready |-> TRUE, email |-> TRUE, cont |-> TRUE,
   pwd |-> TRUE, cb |-> "unchecked", submit |-> TRUE, code |-> FALSE,
   dlg |-> "code", cb2 |-> "absent", sub2 |-> TRUE, rem1 |-> "none",
   rem2 |-> "none", final |-> TRUE]

\* Logins that end in success.
GoodLogins ==
  {PlainLogin,
   [PlainLogin EXCEPT !.probe = "found"],
   [PlainLogin EXCEPT !.email = FALSE],
   [PlainLogin EXCEPT !.cont = FALSE],
   [PlainLogin EXCEPT !.cb = "absent"],
   [PlainLogin EXCEPT !.code = TRUE, !.dlg = "code"]}

\* Logins that end in failure.
BadLogins ==
  {[PlainLogin EXCEPT !.probe = "raise"],
   [PlainLogin EXCEPT !.pwd = FALSE],
   [PlainLogin EXCEPT !.submit = FALSE],
   [PlainLogin EXCEPT !.code = TRUE, !.dlg = "cancel"],
   [PlainLogin EXCEPT !.code = TRUE, !.dlg = "empty"],
   [PlainLogin EXCEPT !.final = FALSE]}

\* The site shows "Clock in" at once.
ClockedOut ==
  <<[up |-> TRUE, cin |-> TRUE, cout |-> FALSE, rem |-> "none", lag |-> 0]>>

\* The passes after which the detector tries again (lines 753-755):
\* neither element is present and the remember-device button is found and
\* clicked, whatever time the waits took.
RetryPasses ==
  {p \in Passes : p.up /\ ~p.cin /\ ~p.cout /\ p.rem = "found"}

\* The passes that end a detection: every other pass.  A pass on which a
\* wait raises shows nothing, and the remember-device button is only
\* waited for when neither element is present.
LastPasses ==
  {p \in Passes \ RetryPasses :
     /\ ~p.up => (~p.cin /\ ~p.cout /\ p.rem = "none")
     /\ (p.cin \/ p.cout) => p.rem = "none"}

\* The passes that end a detection which has tried again: a wait raises,
\* "Clock in" is present, "Clock out" is present, or neither is and there
\* is no remember-device page.
EndPasses ==
  {p \in LastPasses : p.lag = 0 /\ p.rem = "none" /\ ~(p.cin /\ p.cout)}

\* n passes in a row that make the detector try again, the first of them
\* after the waits took dt.
RetryRun(n, dt) ==
  [i \in 1..n |->
     [up |-> TRUE, cin |-> FALSE, cout |-> FALSE, rem |-> "found",
      lag |-> IF i = 1 THEN dt ELSE 0]]

\* The dashboards one detection can meet: one pass that ends it, or up to
\* MaxPasses - 1 passes that make it try again and then a pass that ends
\* it.
DetectRuns ==
  {<<p>> : p \in LastPasses}
  \cup {RetryRun(n, dt) \o <<p>> :
          n \in 1..(MaxPasses - 1), dt \in Lags, p \in EndPasses}

\* The dashboards met by the detection that follows a login: one pass
\* that ends it, or passes that make it try again and then "Clock in".
LoginPasses ==
  {d \in DetectRuns :
     \/ Len(d) = 1
     \/ /\ \A i \in 1..Len(d) : d[i].lag = 0
        /\ <<d[Len(d)]>> = ClockedOut}


\* Answers in which everything works and the site shows "Clock in".
Smooth ==
  [probe_ok |-> TRUE, quit_ok |-> TRUE, create |-> "ok", nav_ok |-> TRUE,
   login |-> PlainLogin, passes |-> ClockedOut, dash_ok |-> TRUE,
   looks |-> ClockedOut, rem |-> "none", button |-> "clickable",
   confirm |-> "gone", lag |-> 0]

\* The answers met while a session is established; stale is whether a
\* handle exists, so that the probe and the quit are asked for.
SessionWays ==
  {[Smooth EXCEPT !.create = "no_browser"],
   [Smooth EXCEPT !.create = "script_raises"],
   [Smooth EXCEPT !.nav_ok = FALSE]}
  \cup {[Smooth EXCEPT !.login = l] : l \in BadLogins}
  \cup {[Smooth EXCEPT !.login = l] : l \in GoodLogins}
  \cup {[Smooth EXCEPT !.passes = p] : p \in LoginPasses}

SessionRuns(stale) ==
  IF stale
    THEN {[w EXCEPT !.probe_ok = a, !.quit_ok = q] :
            w \in SessionWays, a \in BOOLEAN, q \in BOOLEAN}
    ELSE SessionWays

\* The session is never established, so check_status is not reached and
\* what the dashboard would show is never asked for.
NeverLooks(w, stale) ==
  /\ stale => ~w.probe_ok
  /\ \/ w.create # "ok"
     \/ ~w.nav_ok
     \/ w.login \in BadLogins
     \/ ~w.passes[Len(w.passes)].up

\* What check_status (692-707) meets on an established session: the
\* dashboard cannot be opened, or the detection looks at it.
LookRuns ==
  {[dash_ok |-> FALSE, looks |-> ClockedOut]}
  \cup {[dash_ok |-> TRUE, looks |-> p] : p \in DetectRuns}

\* What check_status meets after the session has been established with
\* the answers w: the detection of check_status (707) takes its own look
\* at the site, which need not show what the detection of
\* init_browser_session (115) saw.
LooksAfter(w, stale) ==
  IF NeverLooks(w, stale)
    THEN {[dash_ok |-> w.dash_ok, looks |-> w.looks]}
    ELSE LookRuns

\* The answers w with what check_status meets in l.
Looking(w, l) == [w EXCEPT !.dash_ok = l.dash_ok, !.looks = l.looks]

\* The answers met by a clock action on an established session.
ClockRuns ==
  {[Smooth EXCEPT !.dash_ok = FALSE]}
  \cup {[Smooth EXCEPT !.rem = r, !.button = b] :
           r \in RemAnswers, b \in {"timeout", "raise"}}
  \cup {[Smooth EXCEPT !.rem = r, !.confirm = c] :
           r \in RemAnswers, c \in {"gone", "timeout", "raise"}}
  \cup {[Smooth EXCEPT !.lag = TimeStep, !.confirm = c] :
           c \in {"gone", "timeout"}}

\* The setup dialogs: a cancelled dialog has no text.
DialogRuns ==
  {d \in Dialogs :
     /\ ~d.ok1 => (d.text1 = "" /\ ~d.ok2)
     /\ ~d.ok2 => d.text2 = ""}

\* A first login in which every element is found and no 2FA is asked.
PlainFirst ==
  [create |-> "ok", nav_ok |-> TRUE, email |-> TRUE, cont |-> TRUE,
   pwd |-> TRUE, cb |-> "unchecked", submit |-> TRUE, code |-> FALSE,
   dlg |-> "code", cb2 |-> "absent", sub2 |-> TRUE, rem1 |-> "none",
   final1 |-> TRUE, rem2 |-> "none", final2 |-> TRUE, passes |-> ClockedOut]

\* The answers met by first_time_login.
FirstRuns ==
  {[PlainFirst EXCEPT !.create = "no_browser"],
   [PlainFirst EXCEPT !.create = "script_raises"],
   [PlainFirst EXCEPT !.nav_ok = FALSE],
   [PlainFirst EXCEPT !.email = FALSE],
   [PlainFirst EXCEPT !.submit = FALSE],
   [PlainFirst EXCEPT !.code = TRUE, !.dlg = "cancel"],
   [PlainFirst EXCEPT !.code = TRUE, !.dlg = "empty"],
   [PlainFirst EXCEPT !.code = TRUE, !.sub2 = FALSE],
   [PlainFirst EXCEPT !.code = TRUE, !.final1 = FALSE],
   [PlainFirst EXCEPT !.final2 = FALSE]}
  \cup {[PlainFirst EXCEPT !.code = TRUE, !.rem1 = "found"]}
  \cup {[PlainFirst EXCEPT !.passes = p] : p \in LoginPasses}

\* The timer files the application can find when it starts: exists is
\* os.path.exists, valid is whether open and json.load succeed, writable
\* is whether open(..., "w") succeeds.  A path that cannot be written is
\* absent (a dangling link, a home directory without write permission),
\* not readable as JSON (a directory), or a file that can be read and not
\* written (no write permission, a read-only volume); it keeps what it
\* holds through every save.  Under "clock_in_time" a file holds null, 0,
\* a timestamp, a float that is not finite, or a value that is no number.
TimerFiles ==
  {[exists |-> e, valid |-> FALSE, clock_in_time |-> None, writable |-> w] :
     e \in BOOLEAN, w \in BOOLEAN}
  \cup {[exists |-> TRUE, valid |-> TRUE, clock_in_time |-> c,
         writable |-> w] :
        c \in {None, Some(0), Some(1), Some(NonFinite), Some(NoNumber)},
        w \in BOOLEAN}

\* The configurations the application can find when it starts.
Configs ==
  {[email |-> None, password |-> None],
   [email |-> Some("a"), password |-> Some("a")]}

(* ------------------------------ actions ------------------------------- *)

\* __init__ ends with update_menu_state (line 75).
Done(s, ctor) == IF ctor THEN update_menu_state(s) ELSE s

\* No more than MaxHandles handles are created, and the clock stops at
\* MaxNow.
Bounded(s) == s.next_handle <= MaxHandles + 1 /\ s.now <= MaxNow

\* __init__ up to line 65: files loaded, nothing started.
Init ==
  /\ pc = "start"
  /\ in_ctor = FALSE
  /\ op = "new"
  /\ \E cfg \in Configs, file \in TimerFiles :
       \E a \in {load_timer_state(Constructed(cfg, file))} :
          /\ config = a.config
          /\ status = a.status
          /\ clock_in_time = a.clock_in_time
          /\ timer_file = a.timer_file
          /\ driver = a.driver
          /\ session_active = a.session_active
          /\ lock = a.lock
          /\ hung = a.hung
          /\ live = a.live
          /\ next_handle = a.next_handle
          /\ temp_driver = a.temp_driver
          /\ clock_in_cb = a.clock_in_cb
          /\ clock_out_cb = a.clock_out_cb
          /\ timer_title = a.timer_title
          /\ now = a.now
          /\ ret = a.ret
          /\ dash = a.dash
          /\ seen = a.seen
          /\ log = a.log

\* The run loop waits for the next event: no callback is running.
Waiting == pc = "idle" /\ ~hung /\ op = "wait"

\* app.run(), line 881: the callback has returned and the run loop waits
\* for the next menu click or timer tick.  What the callback did, what
\* it returned and how its detections went is no longer what the last
\* step did; what the last detection was shown stays.
RunLoop ==
  /\ pc = "idle" /\ ~hung /\ op # "wait"
  /\ op' = "wait"
  /\ log' = <<>>
  /\ dash' = <<>>
  /\ ret' = None
  /\ seen' = IF seen = None THEN None
             ELSE Some([seen[1] EXCEPT !.again = FALSE, !.changed = FALSE])
  /\ UNCHANGED <<pc, in_ctor, config, status, clock_in_time, timer_file,
                 driver, session_active, lock, hung, live, next_handle,
                 temp_driver, clock_in_cb, clock_out_cb, timer_title, now>>

\* __init__, lines 68-75, with credentials: init_browser_session.
Startup ==
  /\ pc = "start" /\ ~hung /\ is_configured(Cur)
  /\ \E e \in SessionRuns(driver # None) :
       \E r \in {init_browser_session(Cur, e)} :
          /\ \E k \in Later(IF r.hung THEN r ELSE update_menu_state(r)) :
                Bounded(k) /\ Commit(k)
          /\ pc' = IF r.hung THEN pc ELSE "idle"
  /\ op' = "init"
  /\ UNCHANGED in_ctor

\* The Setup menu item, and __init__ without credentials (line 69):
\* setup, into first_time_login up to line 398 and its except clause.
Setup ==
  /\ ~hung
  /\ Waiting \/ (pc = "start" /\ ~is_configured(Cur))
  /\ \E d \in DialogRuns, w \in BOOLEAN, q \in BOOLEAN :
       \E ctor \in {pc = "start"}, a \in {setup(Cur, d, w, q)} :
          IF ~a.rv
            THEN /\ q /\ w
                 /\ \E k \in Later(Done(a, ctor)) :
                       Bounded(k) /\ Commit(k)
                 /\ pc' = "idle"
                 /\ in_ctor' = FALSE
            ELSE /\ (driver = None) => q
                 /\ \E f \in FirstRuns :
                      \E r \in {first_time_login_flow(a, f)} :
                         /\ \E k \in Later(IF r.exc # "none"
                                              THEN first_time_login_except(r)
                                              ELSE r) :
                               Bounded(k) /\ Commit(k)
                         /\ pc' = IF r.exc = "none" /\ r.rv
                                    THEN "ftl_session" ELSE "ftl_finally"
                         /\ in_ctor' = ctor
  /\ op' = "setup"

\* first_time_login, lines 400-402.
FirstLoginSession ==
  /\ pc = "ftl_session" /\ ~hung
  /\ \E w \in SessionRuns(FALSE), q \in BOOLEAN :
       \E r \in {first_time_login_session(Cur, [w EXCEPT !.quit_ok = q])} :
          /\ (driver = None) => q
          /\ \E k \in Later(r) : Bounded(k) /\ Commit(k)
          /\ pc' = IF r.hung THEN pc ELSE "ftl_finally"
  /\ UNCHANGED <<op, in_ctor>>

\* first_time_login, lines 407-413, and the end of setup.
FirstLoginFinally ==
  /\ pc = "ftl_finally" /\ ~hung
  /\ \E q \in BOOLEAN :
       /\ (temp_driver = None) => q
       /\ \E k \in Later(Done(first_time_login_finally(Cur, q), in_ctor)) :
             Bounded(k) /\ Commit(k)
  /\ pc' = "idle"
  /\ in_ctor' = FALSE
  /\ UNCHANGED op

\* The Check Status menu item.
CheckStatusClicked ==
  /\ Waiting
  /\ \E w \in IF session_active THEN {Smooth}
               ELSE SessionRuns(driver # None) :
       \E l \in IF session_active THEN LookRuns
                ELSE LooksAfter(w, driver # None) :
       \E r \in {check_status_clicked(Cur, Looking(w, l))} :
          \E k \in Later(r) : Bounded(k) /\ Commit(k)
  /\ op' = "check_status_clicked"
  /\ UNCHANGED <<pc, in_ctor>>

\* The Clock In menu item.
ClockIn ==
  /\ Waiting
  /\ \E e \in IF clock_in_cb THEN ClockRuns ELSE {Smooth} :
       \E r \in {clock_in(Cur, e)} :
          \E k \in Later(r) : Bounded(k) /\ Commit(k)
  /\ op' = "clock_in"
  /\ UNCHANGED <<pc, in_ctor>>

\* The Clock Out menu item.
ClockOut ==
  /\ Waiting
  /\ \E e \in IF clock_out_cb THEN ClockRuns ELSE {Smooth} :
       \E r \in {clock_out(Cur, e)} :
          \E k \in Later(r) : Bounded(k) /\ Commit(k)
  /\ op' = "clock_out"
  /\ UNCHANGED <<pc, in_ctor>>

\* The Restart Session menu item.
RestartSession ==
  /\ Waiting
  /\ \E w \in SessionRuns(FALSE), q \in BOOLEAN :
       /\ (driver = None) => q
       /\ \E r \in {restart_browser_session(Cur, [w EXCEPT !.quit_ok = q])} :
             \E k \in Later(r) : Bounded(k) /\ Commit(k)
  /\ op' = "restart"
  /\ UNCHANGED <<pc, in_ctor>>

\* The timer of line 65 fires.
UpdateTimer ==
  /\ Waiting
  /\ Commit(update_timer(Cur))
  /\ op' = "update_timer"
  /\ UNCHANGED <<pc, in_ctor>>

\* The Quit menu item, and the cleanup registered with atexit.
QuitApp ==
  /\ Waiting
  /\ \E q \in BOOLEAN :
       /\ (driver = None) => q
       /\ \E k \in Later(quit_app(Cur, q)) : Bounded(k) /\ Commit(k)
  /\ pc' = "exited"
  /\ op' = "quit"
  /\ UNCHANGED in_ctor

\* Time passes while the run loop waits between callbacks; the time that
\* passes inside a callback is Wait.
Advance ==
  /\ Waiting
  /\ now + TimeStep <= MaxNow
  /\ now' = now + TimeStep
  /\ UNCHANGED <<pc, in_ctor, config, status, clock_in_time, timer_file,
                 driver, session_active, lock, hung, live, next_handle,
                 temp_driver, clock_in_cb, clock_out_cb, timer_title, op,
                 ret, dash, seen, log>>

Next ==
  \/ Startup
  \/ Setup
  \/ FirstLoginSession
  \/ FirstLoginFinally
  \/ RunLoop
  \/ CheckStatusClicked
  \/ ClockIn
  \/ ClockOut
  \/ RestartSession
  \/ UpdateTimer
  \/ QuitApp
  \/ Advance

Spec == Init /\ [][Next]_vars

(* ------------------------------- claims ------------------------------- *)

\* The timer file holds a non-null clock_in_time.
FileHasTime(file) ==
  file.exists /\ file.valid /\ file.clock_in_time # None

\* The file save_timer_state writes for the timestamp c.
SavedFile(c) ==
  [exists |-> TRUE, valid |-> TRUE, clock_in_time |-> c, writable |-> TRUE]

DetectEvents == {"detect_in", "detect_out", "detect_unknown"}

\* The status the last detection of the step detected (a set: empty when
\* no detection of the step came to a status).
LastDetected(l) ==
  {l[i][1] : i \in {j \in 1..Len(l) :
                      /\ l[j][1] \in DetectEvents
                      /\ \A k \in (j + 1)..Len(l) :
                            l[k][1] \notin DetectEvents}}

\* The number of detections of the step that came to a status.
Detections(l) == Cardinality({j \in 1..Len(l) : l[j][1] \in DetectEvents})

\* C1: every session operation started with driver_lock free returns with
\* the lock released; no operation waits for ever to acquire the lock.
C1_OperationsReturn ==
  /\ ~hung
  /\ pc \in {"idle", "exited"} => ~lock

\* C2: when init_browser_session has created a new handle and a later step
\* fails, it returns False with driver None and session_active False.
C2_FailedInitCloses ==
  (Logged("create") /\ Logged("init_failed"))
    => (ret = Some(FALSE) /\ driver = None /\ ~session_active)

\* C3: after a detection the timer file holds a non-null clock_in_time
\* exactly when the detected status is "in".
C3_FileIffIn ==
  \A d \in LastDetected(log) : FileHasTime(timer_file) <=> (d = "detect_in")

\* C3 as amended: after a detection the timer file, when it can be written,
\* holds a non-null clock_in_time exactly when the detected status is "in";
\* when it cannot be written it is left as it was found.
C3_FileIffInWritten ==
  [][\A d \in LastDetected(log') :
       IF timer_file.writable
         THEN /\ timer_file'.writable
              /\ FileHasTime(timer_file') <=> (d = "detect_in")
         ELSE timer_file' = timer_file]_vars

\* A detection found "in" while a timestamp loaded from the file was
\* running, and the file still holds that timestamp.
C3_Witness ==
  /\ LastDetected(log) = {"detect_in"}
  /\ timer_file = SavedFile(Some(1))
  /\ clock_in_time = Some(1)

\* C4: at most one live browser handle exists in every reachable state.
C4_OneHandle == Cardinality(live) <= 1

\* C5: while credentials are not configured no browser handle has been
\* created and no browser action performed.
C5_NoBrowserBeforeSetup ==
  ~is_configured(Cur) => (next_handle = 1 /\ live = {} /\ driver = None)

\* The step is a call of the callback name, or goes on in it.
Called(name) == op' = name

\* c is a timestamp taken from time.time() during the step.
Fresh(c) == c # None /\ now <= c[1] /\ c[1] <= now'

\* C6: a clock action requested for the status the application already
\* holds is reported as "already clocked in/out" and leaves status, timer
\* and browser session unchanged, with no close, restart or retry.
C6_BenignAlready ==
  [][( \/ (Called("clock_in") /\ status = "in")
       \/ (Called("clock_out") /\ status = "out") )
       => /\ InLog(log', "notify_already_in")
             \/ InLog(log', "notify_already_out")
          /\ ~InLog(log', "closed") /\ ~InLog(log', "create")
          /\ ~hung'
          /\ UNCHANGED <<status, clock_in_time, timer_file, driver,
                         session_active, live>>]_vars

\* C7: close_browser_session leaves driver None and session_active False,
\* and the init_browser_session that follows it at once never touches the
\* closed handle: before it reports success it creates a new handle, opens
\* the login page and runs the login flow.
C7_CloseThenInit ==
  [][/\ (Called("restart") \/ pc = "ftl_session") =>
          /\ driver # None =>
                /\ driver[1] \notin live'
                /\ \A i \in 1..Len(log') :
                      log'[i][2] = driver[1]
                        => log'[i][1] \in {"quit", "quit_raised"}
          /\ ~InLog(log', "create") => (driver' = None /\ ~session_active')
          /\ (InLog(log', "init_returned") /\ ret' = Some(TRUE)) =>
                /\ driver' # None /\ driver' # driver
                /\ driver'[1] \in live'
                /\ session_active'
                /\ InLogOn(log', "create", driver'[1])
                /\ InLogOn(log', "login_probe", driver'[1])
                /\ Before(log', "create", "get_login")
                /\ Before(log', "get_login", "login_probe")
                /\ Before(log', "login_probe", "login_ok")
                /\ Before(log', "login_ok", "init_returned")
     /\ Called("quit") => (driver' = None /\ ~session_active')]_vars

\* Restart Session closed handle 1 and reported success on a new handle 2.
C7_Witness ==
  /\ op = "restart"
  /\ InLogOn(log, "quit", 1)
  /\ Before(log, "quit", "create")
  /\ Logged("notify_restarted")
  /\ driver = Some(2)
  /\ live = {2}

\* C8: on a genuine failure inside clock_action or check_status the old
\* handle is closed, init_browser_session runs to completion and the
\* operation returns.
C8_FailureRestarts ==
  (Logged("alert_no_button") \/ Logged("alert_clock_error")
     \/ Logged("status_error"))
    => /\ ~hung
       /\ ~lock
       /\ Before(log, "alert_no_button", "init_returned")
          \/ Before(log, "alert_clock_error", "init_returned")
          \/ Before(log, "status_error", "init_returned")

\* C9: a clock action a whose click is confirmed leaves status = a, a
\* fresh clock_in_time for "in" and none for "out", the timer file equal to
\* the timer in memory and the menu refreshed; a click that is not
\* confirmed within the timeout changes neither status nor timer.
C9_ClockSuccess ==
  [][\A a \in {"in", "out"} :
       Called(IF a = "in" THEN "clock_in" ELSE "clock_out") =>
         /\ (InLog(log', "click") /\ InLog(log', "confirmed")) =>
               /\ status' = a
               /\ IF a = "in" THEN Fresh(clock_in_time')
                               ELSE clock_in_time' = None
               /\ timer_file' = SavedFile(clock_in_time')
               /\ clock_in_cb' = (a # "in")
               /\ clock_out_cb' = (a # "out")
               /\ InLog(log', "menu")
               /\ ~hung' /\ ~lock'
         /\ (InLog(log', "click") /\ InLog(log', "confirm_timeout")) =>
               UNCHANGED <<status, clock_in_time, timer_file>>]_vars

\* C9 as amended: as C9, with the timer file equal to the timer in memory
\* when the file can be written, and left as it was when it cannot.
C9_ClockSuccessWritten ==
  [][\A a \in {"in", "out"} :
       Called(IF a = "in" THEN "clock_in" ELSE "clock_out") =>
         /\ (InLog(log', "click") /\ InLog(log', "confirmed")) =>
               /\ status' = a
               /\ IF a = "in" THEN Fresh(clock_in_time')
                               ELSE clock_in_time' = None
               /\ timer_file' = IF timer_file.writable
                                  THEN SavedFile(clock_in_time')
                                  ELSE timer_file
               /\ clock_in_cb' = (a # "in")
               /\ clock_out_cb' = (a # "out")
               /\ InLog(log', "menu")
               /\ ~hung' /\ ~lock'
         /\ (InLog(log', "click") /\ InLog(log', "confirm_timeout")) =>
               UNCHANGED <<status, clock_in_time, timer_file>>]_vars

\* Clock In was clicked and confirmed after time had passed: the timer
\* started at the time of the call and is in the file.
C9_Witness ==
  /\ op = "clock_in"
  /\ Logged("click") /\ Logged("confirmed")
  /\ status = "in"
  /\ now > StartTime
  /\ clock_in_time = Some(now)
  /\ timer_file = SavedFile(Some(now))

\* C10: the detector gives "Clock in" priority: when it is present the
\* status is "out" and the timer is cleared and saved as null, whether or
\* not "Clock out" is present too; otherwise when "Clock out" is present
\* the status is "in", a set timestamp is kept and one is started only
\* when none is set.
C10_DetectorPriority ==
  [][(dash' # <<>> /\ dash'[Len(dash')].up) =>
       LET p == dash'[Len(dash')]
       IN /\ p.cin =>
               /\ status' = "out"
               /\ clock_in_time' = None
               /\ timer_file' = SavedFile(None)
               /\ LastDetected(log') = {"detect_out"}
          /\ (~p.cin /\ p.cout) =>
               /\ status' = "in"
               /\ LastDetected(log') = {"detect_in"}
               /\ Truthy(clock_in_time')
               /\ Detections(log') = 1 =>
                     IF Truthy(clock_in_time)
                       THEN UNCHANGED <<clock_in_time, timer_file>>
                       ELSE /\ Fresh(clock_in_time')
                            /\ timer_file' = SavedFile(clock_in_time')]_vars

\* C10 as amended: as C10, with the timer saved when the timer file can be
\* written, and the file left as it was when it cannot.
C10_DetectorPriorityWritten ==
  [][(dash' # <<>> /\ dash'[Len(dash')].up) =>
       LET p == dash'[Len(dash')]
       IN /\ p.cin =>
               /\ status' = "out"
               /\ clock_in_time' = None
               /\ timer_file' = IF timer_file.writable
                                  THEN SavedFile(None) ELSE timer_file
               /\ LastDetected(log') = {"detect_out"}
          /\ (~p.cin /\ p.cout) =>
               /\ status' = "in"
               /\ LastDetected(log') = {"detect_in"}
               /\ Truthy(clock_in_time')
               /\ Detections(log') = 1 =>
                     IF Truthy(clock_in_time)
                       THEN UNCHANGED <<clock_in_time, timer_file>>
                       ELSE /\ Fresh(clock_in_time')
                            /\ timer_file' = IF timer_file.writable
                                               THEN SavedFile(clock_in_time')
                                               ELSE timer_file]_vars

\* A dashboard that showed both elements was detected as "out".
C10_Witness ==
  /\ dash # <<>>
  /\ dash[Len(dash)].cin /\ dash[Len(dash)].cout
  /\ status = "out"
  /\ LastDetected(log) = {"detect_out"}

\* The passes of the last detection after which the remember-device page
\* was dismissed and the detection started again.
Retries(d) ==
  {i \in 1..Len(d) : d[i].up /\ ~d[i].cin /\ ~d[i].cout /\ d[i].rem = "found"}

\* C11: one invocation of the status detector dismisses the remember-device
\* page at most once and ends after at most two detection passes.
C11_RetriedOnce ==
  /\ Len(dash) <= 2
  /\ Cardinality(Retries(dash)) <= 1

\* C12: a detection that is shown the same dashboard as the detection just
\* before it yields the same status and changes neither clock_in_time nor
\* the timer file.
C12_DetectionIdempotent ==
  \A i \in 1..Len(seen) : seen[i].again => ~seen[i].changed

\* "Clock out" was detected twice in a row, the second time after time had
\* passed: the timestamp the first detection started is still there.
C12_Witness ==
  /\ seen # None
  /\ seen[1].again /\ seen[1].cout /\ ~seen[1].cin
  /\ LastDetected(log) = {"detect_in"}
  /\ status = "in"
  /\ now > StartTime
  /\ clock_in_time = Some(StartTime)
  /\ timer_file = SavedFile(Some(StartTime))

\* C13: every change of status is followed in the same operation by a menu
\* refresh: Clock In is enabled iff status is not "in" and Clock Out is
\* enabled iff status is not "out".
C13_MenuFollowsStatus ==
  /\ clock_in_cb = (status # "in")
  /\ clock_out_cb = (status # "out")

\* C14: every operation that sets status to "out" or "unknown" also sets
\* clock_in_time to null and saves null in the timer file.
C14_TimerCleared ==
  [][(status' # status /\ status' \in {"out", "unknown"})
       => (clock_in_time' = None /\ timer_file' = SavedFile(None))]_vars

\* C15: in handle_login a cancelled or empty 2FA dialog ends the login in
\* failure with no code typed, no 2FA form submitted and no logged-in
\* marker waited for; a code is typed and submitted only after the dialog
\* returned a non-empty one.
C15_TwoFactorCancel ==
  Logged("login_probe") =>
    /\ (Logged("dialog_cancelled") \/ Logged("dialog_empty")) =>
         /\ Logged("dialog_2fa")
         /\ ~Logged("type_code") /\ ~Logged("submit_code")
         /\ ~Logged("marker_seen") /\ ~Logged("marker_timeout")
         /\ ~Logged("login_ok")
         /\ Logged("login_failed")
    /\ Logged("type_code") => Before(log, "dialog_2fa", "type_code")
    /\ Logged("submit_code") => Before(log, "type_code", "submit_code")

\* The 2FA dialog of handle_login was cancelled and the login failed.
C15_Witness ==
  /\ Logged("login_probe")
  /\ Before(log, "dialog_2fa", "dialog_cancelled")
  /\ Before(log, "dialog_cancelled", "login_failed")
  /\ ~Logged("type_code")

\* What handle_login types, submits or asks the user.
LoginInputs ==
  {"type_email", "submit_email", "type_password", "submit_password",
   "check_remember", "dialog_2fa", "type_code", "submit_code"}

\* C16: handle_login returns True only after a clock action element was
\* seen: at the first probe, and then nothing is typed, submitted or asked,
\* or at the final wait after the password was submitted; a final wait
\* that times out makes it return False.
C16_LoginNeedsMarker ==
  /\ Logged("login_ok") =>
       \/ /\ Before(log, "login_probe", "already_logged_in")
          /\ \A x \in LoginInputs : ~Logged(x)
       \/ /\ ~Logged("already_logged_in")
          /\ Before(log, "type_password", "submit_password")
          /\ Before(log, "submit_password", "marker_seen")
          /\ Before(log, "marker_seen", "login_ok")
  /\ (Logged("login_probe") /\ Logged("marker_timeout")) =>
       (Logged("login_failed") /\ ~Logged("login_ok"))

\* handle_login typed the credentials and a 2FA code, saw a clock action
\* element at the final wait and returned True.
C16_Witness ==
  /\ Before(log, "login_probe", "type_password")
  /\ Before(log, "submit_password", "submit_code")
  /\ Before(log, "submit_code", "marker_seen")
  /\ Before(log, "marker_seen", "login_ok")

\* C17: init_browser_session called with an existing handle first probes
\* it; when the probe succeeds it returns True with the same handle, no new
\* handle and no login; when the probe raises the handle is quit and a new
\* one is created and logged in.
C17_ProbeExisting ==
  \A i \in 1..Len(log) :
    (log[i][1] = "init_called" /\ log[i][2] # 0) =>
      /\ ~hung
      /\ InLogOn(log, "probe", log[i][2])
      /\ \/ /\ driver = Some(log[i][2])
            /\ session_active
            /\ ret = Some(TRUE)
            /\ ~Logged("create") /\ ~Logged("login_probe")
         \/ /\ log[i][2] \notin live
            /\ Before(log, "probe", "create")
            /\ Before(log, "create", "login_probe")

\* The entries of the log l that are a.
Count(l, a) == Cardinality({i \in 1..Len(l) : l[i][1] = a})

\* C18: after close_browser_session driver is None and session_active is
\* False even when quit raises, and a second call in a row changes nothing
\* and raises nothing (quit_app closes, and the cleanup registered with
\* atexit closes again).
C18_CloseTwice ==
  op = "quit" =>
    /\ driver = None /\ ~session_active
    /\ ~hung /\ ~lock
    /\ \A i \in 1..Len(log) :
         log[i][1] \in {"quit", "quit_raised"} => log[i][2] \notin live
    /\ Count(log, "closed") <= 1
    /\ Count(log, "quit") + Count(log, "quit_raised") = Count(log, "closed")
    /\ log # <<>> /\ log[Len(log)][1] = "quit_application"

\* Quit was chosen with a live session whose quit raised: the session is
\* closed all the same, and the second close did nothing.
C18_Witness ==
  /\ op = "quit"
  /\ Before(log, "quit_raised", "closed")
  /\ Before(log, "closed", "quit_application")
  /\ log[Len(log)][1] = "quit_application"
  /\ driver = None /\ ~session_active /\ ~lock

\* C19: the timer tick leaves driver, session_active, status,
\* clock_in_time, the timer file and the menu as they are, does not take
\* driver_lock and does nothing on the browser; it only rewrites the
\* display: hours and minutes since clock_in_time when status is "in" and
\* a timestamp is set, the placeholder otherwise.
C19_TickFrame ==
  [][Called("update_timer") =>
       /\ UNCHANGED <<driver, session_active, status, clock_in_time,
                      timer_file, clock_in_cb, clock_out_cb, lock, hung,
                      live, next_handle, temp_driver, config>>
       /\ log' = <<>>
       /\ timer_title' =
            IF status = "in" /\ clock_in_time # None /\ clock_in_time[1] # 0
              THEN <<(now - clock_in_time[1]) \div 3600,
                     ((now - clock_in_time[1]) % 3600) \div 60>>
              ELSE <<>>]_vars

\* A tick one hour and one minute after the clock-in, with a live session.
C19_Witness ==
  /\ op = "update_timer"
  /\ status = "in"
  /\ clock_in_time = Some(StartTime)
  /\ now = StartTime + TimeStep
  /\ timer_title = <<TimeStep \div 3600, (TimeStep % 3600) \div 60>>
  /\ driver # None /\ session_active /\ ~lock

\* The step is the setup callback up to the call of first_time_login.
SetupCalled == Called("setup") /\ pc \in {"start", "idle"}

\* C20: the stored email and password change only in setup; a setup
\* dialog cancelled at either prompt, or completed with a blank email or
\* password, leaves credentials, browser session and status unchanged.
C20_CredentialsFrame ==
  [][/\ config' # config =>
          /\ SetupCalled
          /\ InLog(log', "email_typed") /\ InLog(log', "password_typed")
          /\ InLog(log', "save_config")
     /\ ( /\ SetupCalled
          /\ \/ InLog(log', "setup_cancelled")
             \/ InLog(log', "email_blank")
             \/ InLog(log', "password_blank") ) =>
          /\ UNCHANGED <<config, driver, session_active, status, live,
                         next_handle, temp_driver, lock, hung>>
          /\ ~InLog(log', "save_config")
          /\ ~InLog(log', "closed") /\ ~InLog(log', "create")]_vars

\* Setup was completed with a blank password on a configured application
\* with a live session: the alert was shown and all is as before.
C20_Witness ==
  /\ op = "setup" /\ pc = "idle"
  /\ Logged("email_typed") /\ Logged("password_blank")
  /\ Logged("alert_credentials_required")
  /\ config = [email |-> Some("a"), password |-> Some("a")]
  /\ driver # None /\ session_active

\* C21: every write to driver or session_active and every use of the
\* persistent handle by init, close, status check or clock action is made
\* with driver_lock held (the handle first_time_login creates for its
\* temp_driver is not the session, whether or not get_chrome_driver
\* returned it).
C21_UnderLock ==
  [][\A i \in 1..Len(log') :
       ( \/ log'[i][1] = "closed"
         \/ /\ log'[i][2] # 0
            /\ Some(log'[i][2]) \notin {temp_driver, temp_driver'}
            /\ ~(SetupCalled /\ log'[i][2] = next_handle) )
         => log'[i][3]]_vars

\* A status check opened the dashboard and looked at it on the session's
\* handle, all with the lock held, and released the lock.
C21_Witness ==
  /\ op = "check_status_clicked"
  /\ driver # None
  /\ \E i, j \in 1..Len(log) :
       /\ i < j
       /\ log[i] = <<"get_dashboard", driver[1], TRUE>>
       /\ log[j] = <<"detect_in", driver[1], TRUE>>
  /\ ~lock /\ ~hung

(* ------------------------------- C22 ---------------------------------- *)

\* The steps of handle_login that end a login when they time out.
RequiredTimeouts == {"password_timeout", "submit_timeout", "marker_timeout"}

\* C22: in handle_login a timeout on an optional step (email input,
\* remember checkbox, 2FA code input, remember-device page) lets the flow
\* go on, a timeout on a required step (password input, submit after the
\* password, final marker) makes the login fail, the steps run in the order
\* email, password, 2FA, remember-device page, final marker, and the
\* password is typed only after the email was submitted or the email input
\* was found absent.
C22_LoginSteps ==
  [][\A h \in 1..(MaxHandles + 1) :
       InLogOn(log', "login_probe", h) =>
         /\ \A j \in 1..Len(log') :
              (log'[j][2] = h /\ log'[j][1] \in RequiredTimeouts) =>
                /\ InLogOn(log', "login_failed", h)
                /\ ~InLogOn(log', "login_ok", h)
         /\ \A i, j \in 1..Len(log') :
              (i < j /\ log'[i][2] = h /\ log'[j][2] = h) =>
                /\ log'[i][1] = "type_password" =>
                     log'[j][1] \notin {"type_email", "submit_email",
                                        "email_absent"}
                /\ log'[i][1] \in {"dialog_2fa", "type_code"} =>
                     log'[j][1] \notin {"type_password", "submit_password"}
                /\ log'[i][1] \in {"marker_seen", "marker_timeout"} =>
                     log'[j][1] \notin LoginInputs \cup {"remember_page"}
         /\ \A j \in 1..Len(log') :
              (log'[j][2] = h /\ log'[j][1] = "type_password") =>
                \E i \in 1..(j - 1) :
                  /\ log'[i][2] = h
                  /\ log'[i][1] \in {"email_absent", "submit_email"}]_vars

(* ------------------------------- C23 ---------------------------------- *)

\* C23: in every state between two callbacks, and in every state in which
\* a callback is stuck, session_active implies that driver holds a handle.
C23_ActiveHasHandle == session_active => driver # None

\* A restart gave up one handle and the session is active on a new one.
C23_Witness ==
  /\ op = "restart"
  /\ InLog(log, "closed")
  /\ InLog(log, "create")
  /\ session_active
  /\ driver # None
  /\ driver[1] \in live
  /\ ~hung

(* ------------------------------- C24 ---------------------------------- *)

\* The file holds a timestamp written by save_timer_state: a value of
\* time.time(), which is positive.
PersistedTime(file) == FileHasTime(file) /\ file.clock_in_time[1] > 0

\* What may change a timestamp: a confirmed clock action, or a detection
\* of "out" or "unknown".
TimeChanges(l) ==
  InLog(l, "notify_success") \/ InLog(l, "detect_out")
    \/ InLog(l, "detect_unknown")

\* C24: the timestamp persisted by an earlier run is the one in memory
\* after the start; a detection of "in" that finds it in memory, as the
\* first detection after the start does, leaves it in memory and in the
\* file; and a timestamp in memory or in the file changes only in a step
\* with a confirmed clock action or a detection of "out" or "unknown".
C24_TimestampKept ==
  [][/\ (op = "new" /\ PersistedTime(timer_file))
          => clock_in_time = timer_file.clock_in_time
     /\ (PersistedTime(timer_file)
           /\ clock_in_time = timer_file.clock_in_time
           /\ InLog(log', "detect_in") /\ ~TimeChanges(log'))
          => /\ clock_in_time' = timer_file.clock_in_time
             /\ timer_file' = timer_file
     /\ (Truthy(clock_in_time) /\ clock_in_time' # clock_in_time)
          => TimeChanges(log')
     /\ (PersistedTime(timer_file) /\ timer_file' # timer_file)
          => TimeChanges(log')]_vars

\* The first callback after the start detected "in" and the timestamp of
\* the earlier run is still in memory and in the file; the elapsed time
\* counts from it.
C24_Witness ==
  /\ op = "init" /\ pc = "idle"
  /\ Detections(log) = 1
  /\ InLog(log, "detect_in")
  /\ status = "in"
  /\ clock_in_time = Some(1)
  /\ timer_file = SavedFile(Some(1))
  /\ now = StartTime

(* ------------------------------- C25 ---------------------------------- *)

\* C25: no browser handle is leaked: after an operation has finished every
\* live handle is the one driver refers to, the temporary handle of
\* first_time_login is held only while first_time_login is on its way to
\* the finally clause that quits it, and a handle on which the login of
\* init_browser_session failed has been quit.
C25_NoLeak ==
  /\ (pc \in {"idle", "exited"} /\ ~hung)
       => live \subseteq (IF driver = None THEN {} ELSE {driver[1]})
  /\ temp_driver # None => (pc \in {"ftl_session", "ftl_finally"} /\ ~hung)
  /\ \A h \in 1..(MaxHandles + 1) :
       InLogOn(log, "login_failed", h) => h \notin live

=============================================================================
